---- MODULE Spec2Model ----
(***************************************************************************)
(* A model of the timeline utilities (movis/contrib/voicevox.py) and of    *)
(* the drawing layers (zunda/layer/drawing.py).                            *)
(*                                                                         *)
(* Strings whose characters matter (keys, diff lines, file stems, raw      *)
(* text) are sequences of one-character strings.  Python indices are kept  *)
(* 0-based and ranges half-open; At(s, i) reads s[i].                      *)
(***************************************************************************)
EXTENDS Integers, Sequences, FiniteSets, TLC

VARIABLES
    \* merge_timeline
    old_timeline, new_timeline, old_columns, new_columns, diff, pos, result,
    old_idx, new_idx, mpc,
    \* make_timeline_from_voicevox and make_voicevox_dataframe
    audio_dir, max_text_length, files, fpos, rows, start_time, frame, fpc,
    \* Rectangle.__call__ and Text.__call__
    layer, contents, size, radius, text, line_spacing, image, pen, brush,
    painted, dpos, dpc

mvars == <<old_timeline, new_timeline, old_columns, new_columns, diff, pos, result,
           old_idx, new_idx, mpc>>

fvars == <<audio_dir, max_text_length, files, fpos, rows, start_time, frame, fpc>>

dvars == <<layer, contents, size, radius, text, line_spacing, image, pen, brush,
           painted, dpos, dpc>>

vars == <<mvars, fvars, dvars>>

-----------------------------------------------------------------------------
(* Generic helpers                                                         *)

At(s, i) == s[i + 1]

Min(x, y) == IF x <= y THEN x ELSE y

Max(x, y) == IF x >= y THEN x ELSE y

SetMax(S) == CHOOSE x \in S : \A y \in S : y <= x

SetMin(S) == CHOOSE x \in S : \A y \in S : x <= y

-----------------------------------------------------------------------------
(* difflib.SequenceMatcher, as used by difflib.Differ() with no junk       *)
(* function and autojunk on.                                               *)

\* The elements autojunk takes out of b2j: in a b of 200 or more elements,
\* those that occur more than len(b) // 100 + 1 times.
Popular(b) ==
    IF Len(b) >= 200
        THEN {b[n] : n \in {m \in DOMAIN b :
                 Cardinality({t \in DOMAIN b : b[t] = b[m]}) > (Len(b) \div 100) + 1}}
        ELSE {}

\* a[i:i+k] == b[j:j+k], all of it found through b2j.
IsMatchAt(a, b, i, j, k) ==
    \A t \in 0..(k - 1) :
        At(a, i + t) = At(b, j + t) /\ At(b, j + t) \notin Popular(b)

\* The longest block a[i:i+k] == b[j:j+k] inside the two ranges that b2j
\* gives; of the longest ones the one starting earliest in a, then earliest
\* in b.
LongestInB2j(a, b, alo, ahi, blo, bhi) ==
    LET C == {m \in (alo..(ahi - 1)) \X (blo..(bhi - 1))
                     \X (1..Min(ahi - alo, bhi - blo)) :
                 /\ m[1] + m[3] <= ahi
                 /\ m[2] + m[3] <= bhi
                 /\ IsMatchAt(a, b, m[1], m[2], m[3])}
        k  == SetMax({m[3] : m \in C})
        i  == SetMin({m[1] : m \in {n \in C : n[3] = k}})
        j  == SetMin({m[2] : m \in {n \in C : n[3] = k /\ n[1] = i}})
    IN  IF C = {} THEN <<alo, blo, 0>> ELSE <<i, j, k>>

\* How far the block m grows before its start (after its end) over equal
\* elements, popular ones included; no element is junk.
ExtendBack(a, b, alo, blo, m) ==
    SetMax({e \in 0..Min(m[1] - alo, m[2] - blo) :
               \A t \in 1..e : At(a, m[1] - t) = At(b, m[2] - t)})

ExtendForward(a, b, ahi, bhi, m) ==
    SetMax({e \in 0..Min(ahi - (m[1] + m[3]), bhi - (m[2] + m[3])) :
               \A t \in 0..(e - 1) : At(a, m[1] + m[3] + t) = At(b, m[2] + m[3] + t)})

Extended(m, back, forward) == <<m[1] - back, m[2] - back, m[3] + back + forward>>

ExtendMatch(a, b, alo, ahi, blo, bhi, m) ==
    Extended(m, ExtendBack(a, b, alo, blo, m), ExtendForward(a, b, ahi, bhi, m))

FindLongestMatch(a, b, alo, ahi, blo, bhi) ==
    ExtendMatch(a, b, alo, ahi, blo, bhi, LongestInB2j(a, b, alo, ahi, blo, bhi))

\* The blocks found by splitting around the longest match, in sorted order.
RECURSIVE MatchingBlocksIn(_, _, _, _, _, _)
MatchingBlocksIn(a, b, alo, ahi, blo, bhi) ==
    LET x == FindLongestMatch(a, b, alo, ahi, blo, bhi)
        i == x[1]
        j == x[2]
        k == x[3]
    IN  IF k = 0 THEN <<>>
        ELSE (IF alo < i /\ blo < j
                 THEN MatchingBlocksIn(a, b, alo, i, blo, j) ELSE <<>>)
             \o <<x>> \o
             (IF i + k < ahi /\ j + k < bhi
                 THEN MatchingBlocksIn(a, b, i + k, ahi, j + k, bhi) ELSE <<>>)

\* Adjacent equal blocks are collapsed into one.
RECURSIVE NonAdjacent(_, _)
NonAdjacent(blocks, cur) ==
    IF blocks = <<>> THEN (IF cur[3] # 0 THEN <<cur>> ELSE <<>>)
    ELSE LET x == Head(blocks)
         IN  IF cur[1] + cur[3] = x[1] /\ cur[2] + cur[3] = x[2]
                THEN NonAdjacent(Tail(blocks), <<cur[1], cur[2], cur[3] + x[3]>>)
                ELSE (IF cur[3] # 0 THEN <<cur>> ELSE <<>>)
                     \o NonAdjacent(Tail(blocks), x)

GetMatchingBlocks(a, b) ==
    NonAdjacent(MatchingBlocksIn(a, b, 0, Len(a), 0, Len(b)), <<0, 0, 0>>)
        \o << <<Len(a), Len(b), 0>> >>

\* Opcodes <<tag, i1, i2, j1, j2>> turning a into b.
RECURSIVE OpcodesFrom(_, _, _)
OpcodesFrom(blocks, i, j) ==
    IF blocks = <<>> THEN <<>>
    ELSE LET ai   == Head(blocks)[1]
             bj   == Head(blocks)[2]
             length == Head(blocks)[3]
             tag  == IF i < ai /\ j < bj THEN "replace"
                     ELSE IF i < ai THEN "delete"
                     ELSE IF j < bj THEN "insert"
                     ELSE ""
         IN  (IF tag # "" THEN << <<tag, i, ai, j, bj>> >> ELSE <<>>)
             \o (IF length # 0
                    THEN << <<"equal", ai, ai + length, bj, bj + length>> >> ELSE <<>>)
             \o OpcodesFrom(Tail(blocks), ai + length, bj + length)

GetOpcodes(a, b) == OpcodesFrom(GetMatchingBlocks(a, b), 0, 0)

RECURSIVE SumSizes(_)
SumSizes(blocks) ==
    IF blocks = <<>> THEN 0 ELSE Head(blocks)[3] + SumSizes(Tail(blocks))

\* ratio() = 2.0 * matches / length, kept as the fraction <<num, den>>;
\* 1.0 when both sequences are empty.
Ratio(a, b) ==
    IF Len(a) + Len(b) = 0 THEN <<1, 1>>
    ELSE <<2 * SumSizes(GetMatchingBlocks(a, b)), Len(a) + Len(b)>>

RatioGT(r, s) == r[1] * s[2] > s[1] * r[2]

RatioLT(r, s) == r[1] * s[2] < s[1] * r[2]

-----------------------------------------------------------------------------
(* difflib.Differ: the delta of two sequences of strings, one line per     *)
(* element plus "? " guide lines for pairs of similar, unequal elements.   *)

\* '%s %s' % (tag, x[i]) for i in range(lo, hi)
Dump(tag, x, lo, hi) == [n \in 1..(hi - lo) |-> <<tag, " ">> \o x[lo + n]]

PlainReplace(a, alo, ahi, b, blo, bhi) ==
    IF bhi - blo < ahi - alo
        THEN Dump("+", b, blo, bhi) \o Dump("-", a, alo, ahi)
        ELSE Dump("-", a, alo, ahi) \o Dump("+", b, blo, bhi)

\* str.isspace(): the ASCII whitespace, which is tab, line feed, vertical
\* tab, form feed, carriage return, the separators 0x1c to 0x1f and space.
\* (The whitespace beyond ASCII, such as 0x85, 0xa0 and U+3000, cannot stand
\* in a string here.)
IsSpace(c) ==
    c \in {" ", "\t", "\n", "", "\f", "\r", "", "", "", ""}

KeepOriginalWs(s, tag_s) ==
    [n \in 1..Min(Len(s), Len(tag_s)) |->
        IF tag_s[n] = " " /\ IsSpace(s[n]) THEN s[n] ELSE tag_s[n]]

RECURSIVE Rstrip(_)
Rstrip(s) ==
    IF s # <<>> /\ IsSpace(s[Len(s)]) THEN Rstrip(SubSeq(s, 1, Len(s) - 1)) ELSE s

Repeat(c, n) == [k \in 1..n |-> c]

\* The tag strings built from the opcodes of the two similar elements.
RECURSIVE ATags(_)
ATags(ops) ==
    IF ops = <<>> THEN <<>>
    ELSE LET op == Head(ops)
             la == op[3] - op[2]
         IN  (CASE op[1] = "replace" -> Repeat("^", la)
                [] op[1] = "delete"  -> Repeat("-", la)
                [] op[1] = "insert"  -> <<>>
                [] op[1] = "equal"   -> Repeat(" ", la))
             \o ATags(Tail(ops))

RECURSIVE BTags(_)
BTags(ops) ==
    IF ops = <<>> THEN <<>>
    ELSE LET op == Head(ops)
             lb == op[5] - op[4]
         IN  (CASE op[1] = "replace" -> Repeat("^", lb)
                [] op[1] = "delete"  -> <<>>
                [] op[1] = "insert"  -> Repeat("+", lb)
                [] op[1] = "equal"   -> Repeat(" ", lb))
             \o BTags(Tail(ops))

QFormat(aline, bline, atags0, btags0) ==
    LET atags == Rstrip(KeepOriginalWs(aline, atags0))
        btags == Rstrip(KeepOriginalWs(bline, btags0))
    IN  << <<"-", " ">> \o aline >>
        \o (IF atags # <<>> THEN << <<"?", " ">> \o atags \o <<"\n">> >> ELSE <<>>)
        \o << <<"+", " ">> \o bline >>
        \o (IF btags # <<>> THEN << <<"?", " ">> \o btags \o <<"\n">> >> ELSE <<>>)

\* One step of the search loop of _fancy_replace on the pair (ai, bj) with
\* r = ratio(): best = [ratio, i, j, eqi, eqj]; -1 stands for an index not set.
\* real_quick_ratio() and quick_ratio() are upper bounds of ratio(), so the
\* three-way test is ratio() > best_ratio.
BetterPair(best, i, j, equal, r) ==
    IF equal
        THEN (IF best.eqi = -1 THEN [best EXCEPT !.eqi = i, !.eqj = j] ELSE best)
    ELSE IF RatioGT(r, best.ratio)
        THEN [best EXCEPT !.ratio = r, !.i = i, !.j = j]
    ELSE best

\* The search loop: j outer, i inner, p = (j - blo) * (ahi - alo) + (i - alo).
RECURSIVE BestPair(_, _, _, _, _, _, _, _)
BestPair(a, alo, ahi, b, blo, bhi, p, best) ==
    IF p >= (ahi - alo) * (bhi - blo) THEN best
    ELSE BestPair(a, alo, ahi, b, blo, bhi, p + 1,
             BetterPair(best, alo + (p % (ahi - alo)), blo + (p \div (ahi - alo)),
                        At(a, alo + (p % (ahi - alo)))
                            = At(b, blo + (p \div (ahi - alo))),
                        Ratio(At(a, alo + (p % (ahi - alo))),
                              At(b, blo + (p \div (ahi - alo))))))

NoPair == [ratio |-> <<74, 100>>, i |-> -1, j |-> -1, eqi |-> -1, eqj |-> -1]

\* The lines of the synch pair: the two elements with their guide lines, or
\* the element itself when the pair is an equal one.
SynchLines(aelt, belt, equal, ops) ==
    IF equal THEN << <<" ", " ">> \o aelt >>
    ELSE QFormat(aelt, belt, ATags(ops), BTags(ops))

\* _fancy_helper: a sub-range goes back to _fancy_replace, what is left of
\* one side alone is dumped.  todo is the result of _fancy_replace on it.
FancyHelper(a, alo, ahi, b, blo, bhi, todo) ==
    IF alo < ahi
        THEN (IF blo < bhi THEN todo ELSE Dump("-", a, alo, ahi))
    ELSE IF blo < bhi THEN Dump("+", b, blo, bhi)
    ELSE <<>>

\* _fancy_replace after its search loop has found [ratio, i, j, eqi, eqj].
RECURSIVE FancyFrom(_, _, _, _, _, _, _)
FancyFrom(a, alo, ahi, b, blo, bhi, found) ==
    IF RatioLT(found.ratio, <<75, 100>>) /\ found.eqi = -1
        THEN PlainReplace(a, alo, ahi, b, blo, bhi)
    ELSE IF RatioLT(found.ratio, <<75, 100>>)
        THEN FancyHelper(a, alo, found.eqi, b, blo, found.eqj,
                 FancyFrom(a, alo, found.eqi, b, blo, found.eqj,
                     BestPair(a, alo, found.eqi, b, blo, found.eqj, 0, NoPair)))
             \o SynchLines(At(a, found.eqi), At(b, found.eqj), TRUE, <<>>)
             \o FancyHelper(a, found.eqi + 1, ahi, b, found.eqj + 1, bhi,
                 FancyFrom(a, found.eqi + 1, ahi, b, found.eqj + 1, bhi,
                     BestPair(a, found.eqi + 1, ahi, b, found.eqj + 1, bhi, 0, NoPair)))
    ELSE FancyHelper(a, alo, found.i, b, blo, found.j,
             FancyFrom(a, alo, found.i, b, blo, found.j,
                 BestPair(a, alo, found.i, b, blo, found.j, 0, NoPair)))
         \o SynchLines(At(a, found.i), At(b, found.j), FALSE,
                       GetOpcodes(At(a, found.i), At(b, found.j)))
         \o FancyHelper(a, found.i + 1, ahi, b, found.j + 1, bhi,
             FancyFrom(a, found.i + 1, ahi, b, found.j + 1, bhi,
                 BestPair(a, found.i + 1, ahi, b, found.j + 1, bhi, 0, NoPair)))

FancyReplace(a, alo, ahi, b, blo, bhi) ==
    FancyFrom(a, alo, ahi, b, blo, bhi,
              BestPair(a, alo, ahi, b, blo, bhi, 0, NoPair))

\* Differ.compare(a, b), the whole generator as a list of lines.
RECURSIVE CompareOps(_, _, _)
CompareOps(a, b, ops) ==
    IF ops = <<>> THEN <<>>
    ELSE LET op == Head(ops)
         IN  (CASE op[1] = "replace" -> FancyReplace(a, op[2], op[3], b, op[4], op[5])
                [] op[1] = "delete"  -> Dump("-", a, op[2], op[3])
                [] op[1] = "insert"  -> Dump("+", b, op[4], op[5])
                [] op[1] = "equal"   -> Dump(" ", a, op[2], op[3]))
             \o CompareOps(a, b, Tail(ops))

Compare(a, b) == CompareOps(a, b, GetOpcodes(a, b))

-----------------------------------------------------------------------------
(* The variables of the functions that are not running.                    *)

MergeIdle ==
    /\ old_timeline = <<>> /\ new_timeline = <<>> /\ old_columns = {}
    /\ new_columns = {} /\ diff = <<>> /\ pos = 0
    /\ result = <<>> /\ old_idx = 0 /\ new_idx = 0 /\ mpc = "idle"

FilesIdle ==
    /\ audio_dir = {} /\ max_text_length = 0 /\ files = <<>> /\ fpos = 0
    /\ rows = <<>> /\ start_time = 0 /\ frame = <<>> /\ fpc = "idle"

DrawIdle ==
    /\ layer = "idle" /\ contents = <<>> /\ size = <<0, 0>> /\ radius = 0
    /\ text = <<>> /\ line_spacing = <<>> /\ image = <<0, 0>> /\ pen = <<>>
    /\ brush = <<>> /\ painted = <<>> /\ dpos = 0 /\ dpc = "idle"

-----------------------------------------------------------------------------
(* merge_timeline(old_timeline, new_timeline, key="hash",                  *)
(* description="text").  A row is a record with the Series name (the index *)
(* label of the frame it was taken from) and the five columns of a frame   *)
(* of make_timeline_from_voicevox: character, hash (the key), text (the    *)
(* description), slide and status.  Both frames carry the default          *)
(* RangeIndex.                                                             *)
(* A frame is its rows and its columns: DataFrame([]) has neither.         *)

MaxLen == 2

Keys == {<<"1">>, <<"2">>, <<"3">>, <<"1", "2">>, <<"1", "2", "3">>}

\* The default of the extra column "slide".
DefaultSlide == 0

\* The description of a row with a given key (the key is the hash of the text).
TextOf(k) ==
    CASE k = <<"1">> -> "a"
      [] k = <<"2">> -> "b"
      [] k = <<"3">> -> "c"
      [] OTHER -> "d"

SeqsUpTo(S, n) == UNION {[1..m -> S] : m \in 0..n}

\* A frame as make_timeline_from_voicevox builds it, one row per key; in an
\* edited frame the user has numbered the slides.
Frame(ks, edited) ==
    [i \in DOMAIN ks |->
        [name |-> i - 1, character |-> "zunda", hash |-> ks[i],
         text |-> TextOf(ks[i]), slide |-> IF edited THEN i ELSE DefaultSlide,
         status |-> "n"]]

OldFrames == {Frame(ks, e) : <<ks, e>> \in SeqsUpTo(Keys, MaxLen) \X BOOLEAN}

NewFrames == {Frame(ks, FALSE) : ks \in SeqsUpTo(Keys, MaxLen)}

\* The columns of a frame of make_timeline_from_voicevox: a frame built from
\* no rows, DataFrame([]), has none.
Columns == {"character", "hash", "text", "slide", "status"}

ColumnsOf(df) == IF df = <<>> THEN {{}, Columns} ELSE {Columns}

\* df[key].tolist()
ToList(df) == [i \in DOMAIN df |-> df[i].hash]

\* df.index.tolist()
Indices(df) == [i \in DOMAIN df |-> df[i].name]

\* df.iloc[n]
Iloc(df, n) == df[n + 1]

StartsWith(d, c) == Len(d) >= 1 /\ d[1] = c

Removed(row) == [row EXCEPT !.text = "<<<<< " \o row.text]

Inserted(row) == [row EXCEPT !.text = ">>>>> " \o row.text]

MergeInit ==
    /\ old_timeline \in OldFrames
    /\ new_timeline \in NewFrames
    /\ old_columns \in ColumnsOf(old_timeline)
    /\ new_columns \in ColumnsOf(new_timeline)
    /\ diff = <<>>
    /\ pos = 1
    /\ result = <<>>
    /\ old_idx = 0
    /\ new_idx = 0
    /\ mpc = "call"
    /\ FilesIdle
    /\ DrawIdle

\* Up to the loop: old_timeline[key] and new_timeline[key] raise KeyError on
\* a frame without the key column; the lines of the differ otherwise.
MergeCall ==
    /\ mpc = "call"
    /\ IF "hash" \in old_columns /\ "hash" \in new_columns
          THEN /\ diff' = Compare(ToList(old_timeline), ToList(new_timeline))
               /\ mpc' = "loop"
          ELSE /\ mpc' = "KeyError"
               /\ diff' = diff
    /\ UNCHANGED <<old_timeline, new_timeline, old_columns, new_columns, pos, result,
                   old_idx, new_idx, fvars, dvars>>

\* d.startswith("-"): the row at old_indices[old_idx], marked as removed.
MergeDelete ==
    /\ mpc = "loop" /\ pos <= Len(diff)
    /\ StartsWith(diff[pos], "-")
    /\ IF old_idx < Len(Indices(old_timeline))
          THEN /\ result' = Append(result,
                     Removed(Iloc(old_timeline, At(Indices(old_timeline), old_idx))))
               /\ old_idx' = old_idx + 1
               /\ pos' = pos + 1
               /\ mpc' = mpc
          ELSE /\ mpc' = "IndexError"
               /\ UNCHANGED <<result, old_idx, pos>>
    /\ UNCHANGED <<old_timeline, new_timeline, old_columns, new_columns, diff, new_idx, fvars, dvars>>

\* d.startswith("+"): the row at new_indices[new_idx], marked as inserted.
MergeInsert ==
    /\ mpc = "loop" /\ pos <= Len(diff)
    /\ ~StartsWith(diff[pos], "-")
    /\ StartsWith(diff[pos], "+")
    /\ IF new_idx < Len(Indices(new_timeline))
          THEN /\ result' = Append(result,
                     Inserted(Iloc(new_timeline, At(Indices(new_timeline), new_idx))))
               /\ new_idx' = new_idx + 1
               /\ pos' = pos + 1
               /\ mpc' = mpc
          ELSE /\ mpc' = "IndexError"
               /\ UNCHANGED <<result, new_idx, pos>>
    /\ UNCHANGED <<old_timeline, new_timeline, old_columns, new_columns, diff, old_idx, fvars, dvars>>

MatchRowFromNew == Iloc(new_timeline, At(Indices(new_timeline), new_idx))

\* The row a line that is neither a delete nor an insert emits.
MatchRow == Iloc(old_timeline, At(Indices(old_timeline), old_idx))

\* else: every other line takes the row at old_indices[old_idx] as it is and
\* advances both cursors.
MergeMatch ==
    /\ mpc = "loop" /\ pos <= Len(diff)
    /\ ~StartsWith(diff[pos], "-")
    /\ ~StartsWith(diff[pos], "+")
    /\ IF old_idx < Len(Indices(old_timeline))
          THEN /\ result' = Append(result, MatchRow)
               /\ old_idx' = old_idx + 1
               /\ new_idx' = new_idx + 1
               /\ pos' = pos + 1
               /\ mpc' = mpc
          ELSE /\ mpc' = "IndexError"
               /\ UNCHANGED <<result, old_idx, new_idx, pos>>
    /\ UNCHANGED <<old_timeline, new_timeline, old_columns, new_columns, diff, fvars, dvars>>

\* The generator is exhausted: return DataFrame(result).
MergeReturn ==
    /\ mpc = "loop" /\ pos > Len(diff)
    /\ mpc' = "done"
    /\ UNCHANGED <<old_timeline, new_timeline, old_columns, new_columns, diff, pos, result, old_idx, new_idx, fvars, dvars>>

MergeNext == MergeCall \/ MergeDelete \/ MergeInsert \/ MergeMatch \/ MergeReturn

SpecMerge == MergeInit /\ [][MergeNext]_vars

-----------------------------------------------------------------------------
(* The directory both builders scan.  A file is its stem, its suffix and   *)
(* what the builders read from it: the text of a .txt file, the decoded    *)
(* duration of a .wav file.  A stem is a sequence of symbols; a speaker    *)
(* label or a variant is one symbol that stands for its characters.        *)

\* The code points of the string a symbol stands for.
Code(c) ==
    CASE c = ".txt"     -> <<46, 116, 120, 116>>
      [] c = ".wav"     -> <<46, 119, 97, 118>>
      [] c = "0"        -> <<48>>
      [] c = "1"        -> <<49>>
      [] c = "2"        -> <<50>>
      [] c = "_"        -> <<95>>
      [] c = "zundamon" -> <<12378, 12435, 12384, 12418, 12435>>
      [] c = "metan"    -> <<22235, 22269, 12417, 12383, 12435>>
      [] c = "tsumugi"  -> <<26149, 26085, 37096, 12388, 12416, 12366>>
      [] c = "nurse"    -> <<12490, 12540, 12473, 12525, 12508>>
      [] c = "normal"   -> <<12494, 12540, 12510, 12523>>
      [] c = "("        -> <<65288>>
      [] c = ")"        -> <<65289>>

RECURSIVE CodePoints(_)
CodePoints(s) == IF s = <<>> THEN <<>> ELSE Code(Head(s)) \o CodePoints(Tail(s))

\* u < v for two sequences of code points.
RECURSIVE LexLess(_, _)
LexLess(u, v) ==
    IF v = <<>> THEN FALSE
    ELSE IF u = <<>> THEN TRUE
    ELSE IF Head(u) # Head(v) THEN Head(u) < Head(v)
    ELSE LexLess(Tail(u), Tail(v))

\* s < t for two strings, as Python compares them.
StrLess(s, t) == LexLess(CodePoints(s), CodePoints(t))

FileName(f) == f.stem \o <<f.suffix>>

\* sorted(f for f in Path(dir).iterdir() if f.suffix == ext)
RECURSIVE Sorted(_)
Sorted(S) ==
    IF S = {} THEN <<>>
    ELSE <<CHOOSE f \in S : \A g \in S \ {f} : StrLess(FileName(f), FileName(g))>>
         \o Sorted(S \ {CHOOSE f \in S :
                           \A g \in S \ {f} : StrLess(FileName(f), FileName(g))})

GetPaths(dir, ext) == Sorted({f \in dir : f.suffix = ext})

\* No two files of a directory have the same name.
IsDirectory(S) == \A f, g \in S : FileName(f) = FileName(g) => f = g

-----------------------------------------------------------------------------
(* make_voicevox_dataframe(audio_dir)                                      *)

MaxDuration == 2

WavStems == {<<"1">>, <<"2">>, <<"1", "0">>}

WavFiles ==
    [stem : WavStems, suffix : {".wav"}, duration : 0..MaxDuration]
        \cup [stem : {<<"0">>}, suffix : {".txt"}, duration : {0}]

AudioInit ==
    /\ audio_dir \in {S \in SUBSET WavFiles : IsDirectory(S)}
    /\ max_text_length = 0
    /\ files = GetPaths(audio_dir, ".wav")
    /\ fpos = 1
    /\ rows = <<>>
    /\ start_time = 0
    /\ frame = <<>>
    /\ fpc = "loop"
    /\ MergeIdle
    /\ DrawIdle

\* librosa.get_duration(path=filename)
GetAudioLength(f) == f.duration

EndTimeStale(start, duration) == duration

\* end_time = start_time + duration
EndTime(start, duration) == start + duration

\* One pass of the loop over wav_files.
AudioStep ==
    /\ fpc = "loop" /\ fpos <= Len(files)
    /\ rows' = Append(rows,
                  [start_time |-> start_time,
                   end_time   |-> EndTime(start_time, GetAudioLength(files[fpos]))])
    /\ start_time' = EndTime(start_time, GetAudioLength(files[fpos]))
    /\ fpos' = fpos + 1
    /\ UNCHANGED <<audio_dir, max_text_length, files, frame, fpc, mvars, dvars>>

\* frame = DataFrame(rows); frame["audio_file"] = [str(p) for p in wav_files]
AudioReturn ==
    /\ fpc = "loop" /\ fpos > Len(files)
    /\ frame' = [i \in DOMAIN rows |->
                    [start_time |-> rows[i].start_time,
                     end_time   |-> rows[i].end_time,
                     audio_file |-> FileName(files[i])]]
    /\ fpc' = "done"
    /\ UNCHANGED <<audio_dir, max_text_length, files, fpos, rows, start_time, mvars, dvars>>

AudioNext == AudioStep \/ AudioReturn

SpecAudio == AudioInit /\ [][AudioNext]_vars

-----------------------------------------------------------------------------
(* make_timeline_from_voicevox(audio_dir, max_text_length) with the        *)
(* default extra_columns (("slide", 0), ("status", "n")).                  *)

MaxFiles == 2

MaxTextLength == 2

Labels == {"zundamon", "metan", "tsumugi", "nurse"}

\* <index>_<speaker>(<variant>), <index>_<speaker>, a speaker token of two
\* labels and <index> alone.
TxtStems ==
    {<<n>> \o t : <<n, t>> \in {"1", "2"} \X
        ({<<"_", l, "(", "normal", ")">> : l \in Labels}
            \cup {<<"_", "zundamon">>, <<"_", "metan", "zundamon">>, <<>>})}

TxtFiles ==
    [stem : TxtStems, suffix : {".txt"}, content : {<<>>, <<"a", "b", "c">>}]
        \cup [stem : {<<"1", "_", "zundamon", "(", "normal", ")">>},
              suffix : {".wav"}, content : {<<"a">>}]

RECURSIVE DirsUpTo(_, _)
DirsUpTo(F, n) ==
    IF n = 0 THEN {{}}
    ELSE DirsUpTo(F, n - 1) \cup
         {D \cup {f} : <<D, f>> \in
             {p \in DirsUpTo(F, n - 1) \X F : IsDirectory(p[1] \cup {p[2]})}}

TextInit ==
    /\ audio_dir \in DirsUpTo(TxtFiles, MaxFiles)
    /\ max_text_length \in 1..MaxTextLength
    /\ files = GetPaths(audio_dir, ".txt")
    /\ fpos = 1
    /\ rows = <<>>
    /\ start_time = 0
    /\ frame = <<>>
    /\ fpc = "loop"
    /\ MergeIdle
    /\ DrawIdle

\* s.split(sep) for a one-symbol separator.
RECURSIVE Split(_, _)
Split(s, sep) ==
    IF \A n \in DOMAIN s : s[n] # sep THEN <<s>>
    ELSE <<SubSeq(s, 1, (CHOOSE n \in DOMAIN s :
                            s[n] = sep /\ \A m \in 1..(n - 1) : s[m] # sep) - 1)>>
         \o Split(SubSeq(s, (CHOOSE n \in DOMAIN s :
                                s[n] = sep /\ \A m \in 1..(n - 1) : s[m] # sep) + 1,
                         Len(s)), sep)

character_dict ==
    [l \in {<<"zundamon">>, <<"metan">>, <<"tsumugi">>} |->
        CASE l = <<"zundamon">> -> "zunda"
          [] l = <<"metan">>    -> "metan"
          [] l = <<"tsumugi">>  -> "tsumugi"]

\* txt_file.stem.split("_")[1].split("(")[0]
Character(f) == At(Split(At(Split(f.stem, "_"), 1), "("), 0)

\* raw_text[i : i + max_text_length] for i in range(0, len(raw_text), max_text_length)
RECURSIVE Chunks(_, _)
Chunks(raw_text, m) ==
    IF raw_text = <<>> THEN <<>>
    ELSE <<SubSeq(raw_text, 1, Min(m, Len(raw_text)))>>
         \o Chunks(SubSeq(raw_text, Min(m, Len(raw_text)) + 1, Len(raw_text)), m)

\* sep.join(parts)
RECURSIVE Join(_, _)
Join(parts, sep) ==
    IF parts = <<>> THEN <<>>
    ELSE IF Len(parts) = 1 THEN parts[1]
    ELSE parts[1] \o sep \o Join(Tail(parts), sep)

\* The first six hex digits of the SHA-1 of the text, kept as a term.
GetHashPrefix(t) == <<"sha1", t>>

Dic(f, m) ==
    [character |-> character_dict[Character(f)],
     hash      |-> GetHashPrefix(f.content),
     text      |-> Join(Chunks(f.content, m), <<"\\", "n">>),
     slide     |-> DefaultSlide,
     status    |-> "n"]

OutcomeLookupFirst(f) ==
    IF Len(Split(f.stem, "_")) < 2 THEN "IndexError"
    ELSE IF Character(f) \notin DOMAIN character_dict THEN "KeyError"
    ELSE IF f.content = <<>> THEN "RuntimeError"
    ELSE "row"

\* What one pass of the loop ends in: the exception it raises, or a row.
Outcome(f) ==
    IF f.content = <<>> THEN "RuntimeError"
    ELSE IF Len(Split(f.stem, "_")) < 2 THEN "IndexError"
    ELSE IF Character(f) \notin DOMAIN character_dict THEN "KeyError"
    ELSE "row"

\* One pass of the loop over txt_files.
TextStep ==
    /\ fpc = "loop" /\ fpos <= Len(files)
    /\ IF Outcome(files[fpos]) = "row"
          THEN /\ rows' = Append(rows, Dic(files[fpos], max_text_length))
               /\ fpos' = fpos + 1
               /\ fpc' = fpc
          ELSE /\ fpc' = Outcome(files[fpos])
               /\ UNCHANGED <<rows, fpos>>
    /\ UNCHANGED <<audio_dir, max_text_length, files, start_time, frame, mvars, dvars>>

\* return DataFrame(lines)
TextReturn ==
    /\ fpc = "loop" /\ fpos > Len(files)
    /\ frame' = rows
    /\ fpc' = "done"
    /\ UNCHANGED <<audio_dir, max_text_length, files, fpos, rows, start_time, mvars, dvars>>

TextNext == TextStep \/ TextReturn

SpecText == TextInit /\ [][TextNext]_vars

-----------------------------------------------------------------------------
(* The drawing layers.  Lengths (sizes, radii, stroke widths) are in units *)
(* of 1/Scale pixel and opacities in units of 1/Scale; the dimensions of   *)
(* the image are whole pixels.                                             *)

Scale == 2

MaxSize == 3

MaxStroke == 2

MaxLayers == 2

\* FillProperty, StrokeProperty and a value that is neither.
FillProperty(color, opacity) ==
    [type |-> "FillProperty", color |-> color, opacity |-> opacity]

StrokeProperty(color, width, opacity) ==
    [type |-> "StrokeProperty", color |-> color, width |-> width,
     opacity |-> opacity]

StyleLayers ==
    {FillProperty(<<255, 0, 0>>, o) : o \in {1, Scale}}
        \cup {StrokeProperty(<<255, 255, 255>>, w, Scale) : w \in 1..MaxStroke}
        \cup {[type |-> "str"]}

\* strokes = [c.width for c in contents if isinstance(c, StrokeProperty)]
Strokes(cs) ==
    {cs[n].width : n \in {m \in DOMAIN cs : cs[m].type = "StrokeProperty"}}

\* _get_max_stroke(contents): max(strokes), 0 without a stroke
GetMaxStroke(cs) == IF Strokes(cs) = {} THEN 0 ELSE SetMax(Strokes(cs))

\* eps = 1.
Eps == Scale

CanvasDimCeil(extent, max_stroke) ==
    (extent + max_stroke + 2 * Eps + Scale - 1) \div Scale

\* np.floor(w + max_stroke + 2 * eps), in pixels
CanvasDim(extent, max_stroke) == (extent + max_stroke + 2 * Eps) \div Scale

\* round(x) for x = n / d, halves going to the even neighbour.
Round(n, d) ==
    IF 2 * (n % d) < d THEN n \div d
    ELSE IF 2 * (n % d) > d THEN (n \div d) + 1
    ELSE IF (n \div d) % 2 = 0 THEN n \div d
    ELSE (n \div d) + 1

\* QColor(b, g, r, a) with a = round(255 * c.opacity)
QColor(c) == <<c.color[3], c.color[2], c.color[1], Round(255 * c.opacity, Scale)>>

\* A new QPainter: a solid black pen of width 1 and no brush.
DefaultPen == [style |-> "SolidLine", color |-> <<0, 0, 0, 255>>, width |-> Scale]

NoBrush == [style |-> "NoBrush"]

QBrush(color) == [style |-> "SolidPattern", color |-> color]

QPen(color, width) == [style |-> "SolidLine", color |-> color, width |-> width]

\* What drawRoundedRect and drawPath put on the image: the inside of the
\* shape in the painter's brush, then its outline in the painter's pen.
Draw(shape, p, b) ==
    (IF b.style # "NoBrush"
        THEN <<[part |-> "interior", shape |-> shape, color |-> b.color]>>
        ELSE <<>>)
    \o (IF p.style # "NoPen"
           THEN <<[part |-> "outline", shape |-> shape, color |-> p.color,
                   width |-> p.width]>>
           ELSE <<>>)

Tag(k, paints) == [n \in DOMAIN paints |-> <<k, paints[n]>>]

ContentsUpTo(n) == UNION {[1..m -> StyleLayers] : m \in 0..n}

-----------------------------------------------------------------------------
(* Rectangle.__call__(time), size and radius being the values at time.     *)

RectangleInit ==
    /\ layer = "Rectangle"
    /\ contents \in ContentsUpTo(MaxLayers)
    /\ size \in (0..MaxSize) \X (0..MaxSize)
    /\ radius \in {0, Scale}
    /\ text = <<>> /\ line_spacing = <<>>
    /\ image = <<0, 0>> /\ pen = <<>> /\ brush = <<>>
    /\ painted = <<>> /\ dpos = 0 /\ dpc = "call"

\* QRectF(eps + max_stroke / 2, eps + max_stroke / 2, w, h), in half units
Rect ==
    [x |-> 2 * Eps + GetMaxStroke(contents), y |-> 2 * Eps + GetMaxStroke(contents),
     w |-> 2 * size[1], h |-> 2 * size[2], radius |-> 2 * radius]

\* Up to the creation of the painter.
RectangleCall ==
    /\ layer = "Rectangle" /\ dpc = "call"
    /\ IF Len(contents) = 0
          THEN /\ dpc' = "None"
               /\ UNCHANGED <<image, pen, brush, dpos>>
          ELSE /\ image' = <<CanvasDim(size[1], GetMaxStroke(contents)),
                             CanvasDim(size[2], GetMaxStroke(contents))>>
               /\ pen' = DefaultPen
               /\ brush' = NoBrush
               /\ dpos' = 1
               /\ dpc' = "paint"
    /\ UNCHANGED <<layer, contents, size, radius, text, line_spacing, painted,
                   mvars, fvars>>

\* One pass of the loop over self.contents.
RectanglePaint ==
    /\ layer = "Rectangle" /\ dpc = "paint" /\ dpos <= Len(contents)
    /\ IF contents[dpos].type = "FillProperty"
          THEN /\ brush' = QBrush(QColor(contents[dpos]))
               /\ pen' = pen
               /\ painted' = painted \o Tag(dpos, Draw(Rect, pen, brush'))
               /\ dpos' = dpos + 1
               /\ dpc' = dpc
       ELSE IF contents[dpos].type = "StrokeProperty"
          THEN /\ pen' = QPen(QColor(contents[dpos]), contents[dpos].width)
               /\ brush' = brush
               /\ painted' = painted \o Tag(dpos, Draw(Rect, pen', brush))
               /\ dpos' = dpos + 1
               /\ dpc' = dpc
       ELSE /\ dpc' = "ValueError"
            /\ UNCHANGED <<pen, brush, painted, dpos>>
    /\ UNCHANGED <<layer, contents, size, radius, text, line_spacing, image,
                   mvars, fvars>>

\* painter.end(); return qimage_to_numpy(image)
RectangleReturn ==
    /\ layer = "Rectangle" /\ dpc = "paint" /\ dpos > Len(contents)
    /\ dpc' = "frame"
    /\ UNCHANGED <<layer, contents, size, radius, text, line_spacing, image, pen,
                   brush, painted, dpos, mvars, fvars>>

-----------------------------------------------------------------------------
(* Text.__call__(time), text being get_text(time).  The metrics of the     *)
(* font are those of a fixed-pitch font.                                   *)

FontAscent == 2

FontDescent == 1

CharWidth == 1

\* metrics.boundingRect(line)
BoundingRect(line) ==
    [x |-> 0, y |-> 0 - FontAscent, width |-> CharWidth * Len(line),
     height |-> FontAscent + FontDescent]

Texts == {<<>>, <<"a">>, <<"a", "b", "\n", "c">>}

TextLayerInit ==
    /\ layer = "Text"
    /\ contents \in ContentsUpTo(MaxLayers)
    /\ text \in Texts
    /\ line_spacing \in {<<>>, <<FontAscent>>}
    /\ size = <<0, 0>> /\ radius = 0
    /\ image = <<0, 0>> /\ pen = <<>> /\ brush = <<>>
    /\ painted = <<>> /\ dpos = 0 /\ dpc = "call"

\* get_size: the widest line and the sum of the line advances, in pixels.
RECURSIVE GetSize(_, _, _)
GetSize(lines, i, acc) ==
    IF i > Len(lines) THEN acc
    ELSE GetSize(lines, i + 1,
            <<Max(acc[1], BoundingRect(lines[i]).width - BoundingRect(lines[i]).x),
              acc[2] + (IF line_spacing = <<>> \/ i = Len(lines)
                           THEN BoundingRect(lines[i]).height - BoundingRect(lines[i]).y
                           ELSE line_spacing[1])>>)

\* cursor_y after line i (from 1), in pixels less eps.
RECURSIVE CursorY(_, _)
CursorY(lines, i) ==
    IF i = 1 THEN BoundingRect(lines[1]).height
    ELSE CursorY(lines, i - 1)
         + (IF line_spacing = <<>>
               THEN BoundingRect(lines[i]).height - BoundingRect(lines[i]).y
               ELSE line_spacing[1])

\* The lines at their baselines, as one shape.
Glyphs(lines) == [i \in DOMAIN lines |-> <<0, Eps + Scale * CursorY(lines, i), lines[i]>>]

TextCall ==
    /\ layer = "Text" /\ dpc = "call"
    /\ IF Len(contents) = 0 \/ text = <<>>
          THEN /\ dpc' = "None"
               /\ UNCHANGED <<size, image, pen, brush, dpos>>
          ELSE /\ size' = GetSize(Split(text, "\n"), 1, <<0, 0>>)
               /\ image' = <<CanvasDim(Scale * size'[1], GetMaxStroke(contents)),
                             CanvasDim(Scale * size'[2], GetMaxStroke(contents))>>
               /\ pen' = DefaultPen
               /\ brush' = NoBrush
               /\ dpos' = 1
               /\ dpc' = "paint"
    /\ UNCHANGED <<layer, contents, radius, text, line_spacing, painted, mvars, fvars>>

\* One pass of the loop over self.contents: drawText paints the glyphs in
\* the pen's colour, drawPath a path of the glyphs as any other shape; a
\* value that is neither kind of property is passed over.
TextPaint ==
    /\ layer = "Text" /\ dpc = "paint" /\ dpos <= Len(contents)
    /\ IF contents[dpos].type = "FillProperty"
          THEN /\ pen' = QPen(QColor(contents[dpos]), Scale)
               /\ painted' = painted \o
                     Tag(dpos, <<[part |-> "text", shape |-> Glyphs(Split(text, "\n")),
                                  color |-> pen'.color]>>)
       ELSE IF contents[dpos].type = "StrokeProperty"
          THEN /\ pen' = QPen(QColor(contents[dpos]), contents[dpos].width)
               /\ painted' = painted \o
                     Tag(dpos, Draw(Glyphs(Split(text, "\n")), pen', brush))
       ELSE UNCHANGED <<pen, painted>>
    /\ dpos' = dpos + 1
    /\ UNCHANGED <<layer, contents, size, radius, text, line_spacing, image, brush,
                   dpc, mvars, fvars>>

TextLayerReturn ==
    /\ layer = "Text" /\ dpc = "paint" /\ dpos > Len(contents)
    /\ dpc' = "frame"
    /\ UNCHANGED <<layer, contents, size, radius, text, line_spacing, image, pen,
                   brush, painted, dpos, mvars, fvars>>

DrawInit == (RectangleInit \/ TextLayerInit) /\ MergeIdle /\ FilesIdle

DrawNext ==
    \/ RectangleCall \/ RectanglePaint \/ RectangleReturn
    \/ TextCall \/ TextPaint \/ TextLayerReturn

SpecDraw == DrawInit /\ [][DrawNext]_vars

-----------------------------------------------------------------------------
-----------------------------------------------------------------------------
(* Properties of merge_timeline                                            *)

Terminated == mpc \notin {"call", "loop"}

\* Both frames have the key column.
HasKey == "hash" \in old_columns /\ "hash" \in new_columns

\* The operations of the differ: its lines less the "? " guide lines.  Every
\* operation is a delete ("-"), an insert ("+") or a match (" ").
DiffOps == SelectSeq(diff, LAMBDA d : ~StartsWith(d, "?"))

\* The old (new) row operation k is about, counted from 1.
OldOf(k) == Cardinality({n \in 1..k : DiffOps[n][1] \in {"-", " "}})

NewOf(k) == Cardinality({n \in 1..k : DiffOps[n][1] \in {"+", " "}})

\* The pairs <<i, j>> of an old and a new row the key-sequence alignment matches.
Alignment ==
    {<<OldOf(k), NewOf(k)>> : k \in {n \in DOMAIN DiffOps : DiffOps[n][1] = " "}}

MatchedOld == {p[1] : p \in Alignment}

MatchedNew == {p[2] : p \in Alignment}

\* The row operation k has to emit.
ExpectedRow(k) ==
    CASE DiffOps[k][1] = "-" -> Removed(old_timeline[OldOf(k)])
      [] DiffOps[k][1] = "+" -> Inserted(new_timeline[NewOf(k)])
      [] OTHER               -> old_timeline[OldOf(k)]

Count(rs) == Cardinality({k \in DOMAIN result : result[k] \in rs})

\* C1: merge_timeline never drops a record: in its output every old record
\* and every new record appears exactly once (a matched pair as the one
\* unmarked old record), and a record carries a marker iff the alignment did
\* not match it.
C1_NeverDropsARecord ==
    (Terminated /\ HasKey) =>
        /\ mpc = "done"
        /\ \A i \in DOMAIN old_timeline :
              /\ Count({old_timeline[i], Removed(old_timeline[i])}) = 1
              /\ Count({Removed(old_timeline[i])}) = 1 <=> i \notin MatchedOld
        /\ \A j \in DOMAIN new_timeline :
              IF j \in MatchedNew
                 THEN /\ Count({Inserted(new_timeline[j])}) = 0
                      /\ \E i \in DOMAIN old_timeline :
                            <<i, j>> \in Alignment /\ Count({old_timeline[i]}) = 1
                 ELSE Count({Inserted(new_timeline[j])}) = 1
        /\ Len(result) = Len(old_timeline) + Len(new_timeline) - Cardinality(Alignment)

DisjointKeys ==
    \A i \in DOMAIN old_timeline : \A j \in DOMAIN new_timeline :
        old_timeline[i].hash # new_timeline[j].hash

\* C2: when no key of old occurs in new, the output has len(old) + len(new)
\* records and every old and every new record is in it exactly once.
C2_DisjointKeysKeepAll ==
    (Terminated /\ HasKey /\ DisjointKeys) =>
        /\ mpc = "done"
        /\ Len(result) = Len(old_timeline) + Len(new_timeline)
        /\ \A i \in DOMAIN old_timeline :
              Count({old_timeline[i], Removed(old_timeline[i])}) = 1
        /\ \A j \in DOMAIN new_timeline :
              Count({Inserted(new_timeline[j])}) = 1

\* C3: when old and new have the same keys in the same order (two frames
\* that have the key column), the output is the len(old) records of old,
\* unmarked and in their order.
C3_SameKeysReturnOld ==
    (Terminated /\ HasKey /\ ToList(old_timeline) = ToList(new_timeline)) =>
        /\ mpc = "done"
        /\ Len(result) = Len(old_timeline)
        /\ \A k \in DOMAIN result : result[k] = old_timeline[k]

C3_Witness ==
    /\ mpc = "done"
    /\ ToList(old_timeline) = ToList(new_timeline)
    /\ Len(old_timeline) >= 2
    /\ old_timeline # new_timeline
    /\ Len(result) = 2

IsExample ==
    /\ ToList(old_timeline) = << <<"1">>, <<"2">> >>
    /\ ToList(new_timeline) = << <<"2">>, <<"3">> >>

KeysAndTexts(rs) == [k \in DOMAIN rs |-> <<rs[k].hash, rs[k].text>>]

\* The names of the output rows that carry (do not carry) the insertion marker.
RECURSIVE NamesOf(_, _)
NamesOf(rs, inserted) ==
    IF rs = <<>> THEN <<>>
    ELSE (IF (\E r \in DOMAIN new_timeline :
                 Head(rs) = Inserted(new_timeline[r])) = inserted
             THEN <<Head(rs).name>> ELSE <<>>)
         \o NamesOf(Tail(rs), inserted)

Increasing(s) == \A m, n \in DOMAIN s : m < n => s[m] < s[n]

\* C4: the walk emits, operation by operation, the next unused old record
\* with the removal marker for a delete, the next unused new record with the
\* insertion marker for an insert and the next unused old record as it is for
\* a match; only the payload ever changes, old and new records keep their
\* order, and old keys [1,2] against new keys [2,3] give
\* [(1,'<<<<< a'), (2,'b'), (3,'>>>>> c')].
C4_WalkEmitsEachOperation ==
    /\ mpc # "IndexError"
    /\ Len(result) <= Len(DiffOps)
    /\ \A k \in DOMAIN result : k <= Len(DiffOps) => result[k] = ExpectedRow(k)
    /\ mpc = "done" => Len(result) = Len(DiffOps)
    /\ Increasing(NamesOf(result, TRUE))
    /\ Increasing(NamesOf(result, FALSE))
    /\ (mpc = "done" /\ IsExample) =>
          KeysAndTexts(result) = << <<<<"1">>, "<<<<< a">>, <<<<"2">>, "b">>,
                                    <<<<"3">>, ">>>>> c">> >>

\* C9: every line of the differ is consumed as one operation: a line taken
\* as a match aligns an old and a new record with equal keys, no read goes
\* past the end of an input, and the walk ends with both cursors at the end.
C9_EveryLineIsOneOperation ==
    /\ mpc # "IndexError"
    /\ (/\ mpc = "loop" /\ pos <= Len(diff)
        /\ ~StartsWith(diff[pos], "-") /\ ~StartsWith(diff[pos], "+"))
       => /\ old_idx < Len(old_timeline)
          /\ new_idx < Len(new_timeline)
          /\ Iloc(old_timeline, old_idx).hash = Iloc(new_timeline, new_idx).hash
    /\ (mpc = "loop" /\ pos <= Len(diff) /\ StartsWith(diff[pos], "-"))
       => old_idx < Len(old_timeline)
    /\ (mpc = "loop" /\ pos <= Len(diff) /\ StartsWith(diff[pos], "+"))
       => new_idx < Len(new_timeline)
    /\ mpc = "done" => old_idx = Len(old_timeline) /\ new_idx = Len(new_timeline)

-----------------------------------------------------------------------------
(* Properties of make_voicevox_dataframe                                   *)

WavOf(dir) == {f \in dir : f.suffix = ".wav"}

\* The file with exactly i - 1 .wav files of the directory before it.
NthWav(dir, i) ==
    CHOOSE f \in WavOf(dir) :
        Cardinality({g \in WavOf(dir) : StrLess(FileName(g), FileName(f))}) = i - 1

\* C8: over the .wav files in sorted filename order, record 0 starts at 0.0,
\* every later record starts where the one before it ends, every record ends
\* at its start plus the duration of its file, the start times never
\* decrease, and the audio_file of record i is the i-th file.
C8_CumulativeTimes ==
    fpc = "done" =>
        /\ Len(frame) = Cardinality(WavOf(audio_dir))
        /\ \A i \in DOMAIN frame :
              /\ frame[i].start_time = (IF i = 1 THEN 0 ELSE frame[i - 1].end_time)
              /\ frame[i].end_time =
                    frame[i].start_time + NthWav(audio_dir, i).duration
              /\ frame[i].audio_file = FileName(NthWav(audio_dir, i))
              /\ i > 1 => frame[i - 1].start_time <= frame[i].start_time

C8_Witness ==
    /\ fpc = "done"
    /\ Len(frame) = 3
    /\ frame[2].audio_file = <<"1", "0", ".wav">>
    /\ frame[2].start_time > 0
    /\ frame[3].start_time > frame[2].start_time
    /\ \E f \in audio_dir : f.suffix = ".txt"

-----------------------------------------------------------------------------
(* Properties of make_timeline_from_voicevox                               *)

TxtOf(dir) == {f \in dir : f.suffix = ".txt"}

HasToken(f) == \E n \in DOMAIN f.stem : f.stem[n] = "_"

Recognized(f) == HasToken(f) /\ Character(f) \in {<<"zundamon">>, <<"metan">>, <<"tsumugi">>}

Valid(f) == f.content # <<>> /\ Recognized(f)

Before(f, g) == StrLess(FileName(f), FileName(g))

\* The invalid .txt file that no other invalid one precedes.
FirstInvalid ==
    CHOOSE f \in TxtOf(audio_dir) :
        /\ ~Valid(f)
        /\ \A g \in TxtOf(audio_dir) : Before(g, f) => Valid(g)

\* C5: the build has no partial success: it returns one record per file iff
\* every file has content and a recognized speaker; otherwise it returns
\* nothing and fails at the first invalid file in sorted order, with
\* RuntimeError (EmptyFile) when that file is empty, whatever its speaker,
\* and with KeyError (UnknownSpeaker) when its speaker is not recognized.
C5_NoPartialSuccess ==
    fpc \notin {"loop", "idle"} =>
        /\ fpc = "done" <=> \A f \in TxtOf(audio_dir) : Valid(f)
        /\ fpc = "done" =>
              /\ Len(frame) = Cardinality(TxtOf(audio_dir))
              /\ \A i \in DOMAIN frame : \E f \in TxtOf(audio_dir) :
                    /\ Cardinality({g \in TxtOf(audio_dir) : Before(g, f)}) = i - 1
                    /\ frame[i].character = character_dict[Character(f)]
                    /\ frame[i].hash = GetHashPrefix(f.content)
        /\ fpc # "done" =>
              /\ frame = <<>>
              /\ files[fpos] = FirstInvalid
              /\ FirstInvalid.content = <<>> => fpc = "RuntimeError"
              /\ (/\ FirstInvalid.content # <<>>
                  /\ HasToken(FirstInvalid)
                  /\ ~Recognized(FirstInvalid)) => fpc = "KeyError"

C5_Witness ==
    /\ fpc = "RuntimeError"
    /\ fpos = 2
    /\ Len(rows) = 1
    /\ HasToken(files[2]) /\ ~Recognized(files[2])

-----------------------------------------------------------------------------
(* Properties of the drawing layers.                                       *)

DrawTerminated == dpc \in {"None", "frame", "ValueError"}

HasLayer(type) == \E k \in DOMAIN contents : contents[k].type = type

OnlyFill == Len(contents) = 1 /\ contents[1].type = "FillProperty"

\* ceil(x) for x in units of 1/Scale
Ceil(x) == (x + Scale - 1) \div Scale

\* C6, as the specification words it: Rectangle.__call__ returns None for
\* an empty style list and otherwise an image of ceil(size + max_stroke + 2)
\* pixels each way, so that one Fill layer alone gives at least
\* ceil(width) + 2 by ceil(height) + 2 pixels.
C6_CeilDimensions ==
    (layer = "Rectangle" /\ DrawTerminated) =>
        /\ (contents = <<>>) <=> (dpc = "None")
        /\ dpc = "frame" =>
              /\ image[1] = Ceil(size[1] + GetMaxStroke(contents) + 2 * Scale)
              /\ image[2] = Ceil(size[2] + GetMaxStroke(contents) + 2 * Scale)
              /\ OnlyFill => /\ image[1] >= Ceil(size[1]) + 2
                             /\ image[2] >= Ceil(size[2]) + 2

\* C6, as the code has it: Rectangle.__call__ returns None for an empty
\* style list and otherwise an image whose width W and height H are the
\* floor of size + max_stroke + 2, that is W <= w + max_stroke + 2 < W + 1;
\* with one Fill layer alone the image is floor(width) + 2 by
\* floor(height) + 2 pixels, which reaches ceil(width) + 2 only for a whole
\* width.
C6_FloorDimensions ==
    (layer = "Rectangle" /\ DrawTerminated) =>
        /\ (contents = <<>>) <=> (dpc = "None")
        /\ dpc = "frame" =>
              /\ \A d \in 1..2 :
                    /\ Scale * image[d] <= size[d] + GetMaxStroke(contents) + 2 * Scale
                    /\ size[d] + GetMaxStroke(contents) + 2 * Scale < Scale * (image[d] + 1)
              /\ OnlyFill =>
                    \A d \in 1..2 :
                        /\ image[d] = (size[d] \div Scale) + 2
                        /\ (image[d] >= Ceil(size[d]) + 2) <=> (size[d] % Scale = 0)

\* A frame drawn for one Fill layer on a rectangle of fractional width.
C6_Witness ==
    /\ layer = "Rectangle" /\ dpc = "frame" /\ OnlyFill
    /\ size[1] % Scale # 0
    /\ image[1] < Ceil(size[1]) + 2

\* C7: in both layers, a non-empty style list holding a value that is
\* neither a FillProperty nor a StrokeProperty (and, for Text, a non-empty
\* text) makes the call raise ValueError and return no frame, wherever the
\* value stands in the list.
C7_UnknownStyleRaises ==
    (/\ DrawTerminated
     /\ HasLayer("str")
     /\ layer = "Text" => text # <<>>) => dpc = "ValueError"

Paints(k) == SelectSeq(painted, LAMBDA e : e[1] = k)

\* What layer k alone asks for: a Fill the inside of the rectangle in its
\* colour, a Stroke the outline in its colour and width.
OwnPaints(k) ==
    IF contents[k].type = "FillProperty"
        THEN <<[part |-> "interior", shape |-> Rect, color |-> QColor(contents[k])]>>
    ELSE IF contents[k].type = "StrokeProperty"
        THEN <<[part |-> "outline", shape |-> Rect, color |-> QColor(contents[k]),
                width |-> contents[k].width]>>
    ELSE <<>>

\* C10: in Rectangle.__call__ every layer paints what its own parameters
\* say and nothing else: a Stroke only the outline, a Fill only the
\* interior, whatever pen or brush the painter holds from before.
C10_LayerPaintsOnlyItsOwn ==
    layer = "Rectangle" =>
        \A k \in 1..Len(contents) :
            k < dpos => Paints(k) = Tag(k, OwnPaints(k))

====
